---------------------------- MODULE Spec2Model ----------------------------
(***************************************************************************)
(* Model of generate.py: the resolution pipeline that turns a scraped cube *)
(* listing (name, bucket) into XMage deck entries; and of                  *)
(* tools/minimize.py, which strips a deck file.                            *)
(*                                                                         *)
(* Python strings are modelled as sequences of one-character strings, so   *)
(* that splitting, joining, chunking and ordering are computed and not     *)
(* assumed.  Characters are ordered by their code points; the two          *)
(* non-ASCII characters of the program are written "u2020" and "u2605".    *)
(***************************************************************************)
EXTENDS Integers, Sequences, FiniteSets, TLC

VARIABLES
    pc,        \* position of the run of generate(): see Generate actions
    file,      \* the output file: "absent", "empty", "old" or the written lines
    raw,       \* RawCube.entries, the scraped sequence of RawCubeEntry
    idx,       \* number of entries of raw already mapped by Cube.from_raw
    cards,     \* the list built by Cube.from_raw: one CubeEntry per mapped entry
    cache,     \* functools.cache of CubeEntryMapper.map: RawCubeEntry -> CubeEntry
    queries,   \* the names passed to Card.where so far, in order, with the entry
    failure,   \* the message handed to sys.exit, or "none"
    cmpSt,     \* inputs and results of the collector number comparison
    selSt,     \* an oracle response and the result of _fetch_oldest on it
    aggSt,     \* a Cube and the result of XMageExporter._bucketize on it
    minSt,     \* a call of minimize(file, to): the files before and after it
    oracle     \* the oracle's answers when they are held fixed: name -> response

vars ==
    <<pc, file, raw, idx, cards, cache, queries, failure, cmpSt, selSt, aggSt,
      minSt, oracle>>

(***************************************************************************)
(* Bounds of the model.                                                    *)
(***************************************************************************)
MaxNumLen == 2      \* longest collector number drawn for the comparator
MaxCands == 4       \* longest oracle response drawn for the selector
MaxItems == 3       \* longest scraped cube
MaxCards == 3       \* longest list of resolved cards drawn for the aggregation
MaxLines == 2       \* longest deck file drawn for minimize

(***************************************************************************)
(* Python str: code points, comparison, containment, split, join.          *)
(***************************************************************************)
\* the printable ASCII characters, in code point order from 32 (the double
\* quote, the backslash and the backtick are written "u0022", "u005C", "u0060")
Ascii ==
    <<
      " ", "!", "u0022", "#", "$", "%", "&", "'", "(", ")",
      "*", "+", ",", "-", ".", "/", "0", "1", "2", "3",
      "4", "5", "6", "7", "8", "9", ":", ";", "<", "=",
      ">", "?", "@", "A", "B", "C", "D", "E", "F", "G",
      "H", "I", "J", "K", "L", "M", "N", "O", "P", "Q",
      "R", "S", "T", "U", "V", "W", "X", "Y", "Z", "[",
      "u005C", "]", "^", "_", "u0060", "a", "b", "c", "d", "e",
      "f", "g", "h", "i", "j", "k", "l", "m", "n", "o",
      "p", "q", "r", "s", "t", "u", "v", "w", "x", "y",
      "z", "{", "|", "}", "~"
    >>

\* ord(c)
Ord(c) ==
    IF c = "u2020" THEN 8224
    ELSE IF c = "u2605" THEN 9733
    ELSE 31 + CHOOSE i \in 1..Len(Ascii) : Ascii[i] = c

\* str.__lt__: lexicographic by code point, a proper prefix is smaller
RECURSIVE StrLess(_, _)
StrLess(s, t) ==
    IF t = <<>> THEN FALSE
    ELSE IF s = <<>> THEN TRUE
    ELSE IF Head(s) # Head(t) THEN Ord(Head(s)) < Ord(Head(t))
    ELSE StrLess(Tail(s), Tail(t))

\* whether s starts with p
StartsWith(s, p) ==
    /\ Len(p) <= Len(s)
    /\ SubSeq(s, 1, Len(p)) = p

\* the first index at which p occurs in s, 0 if it does not (str.find + 1)
Find(s, p) ==
    LET hits == {i \in 1..(Len(s) + 1) :
                    /\ i + Len(p) - 1 <= Len(s)
                    /\ SubSeq(s, i, i + Len(p) - 1) = p}
    IN IF hits = {} THEN 0
       ELSE CHOOSE i \in hits : \A j \in hits : i <= j

\* p in s
Contains(s, p) == Find(s, p) # 0

\* the index of the first position where s and t differ, 0 if one is a
\* prefix of the other
FirstDiff(s, t) ==
    LET n == IF Len(s) < Len(t) THEN Len(s) ELSE Len(t)
        d == {i \in 1..n : s[i] # t[i]}
    IN IF d = {} THEN 0 ELSE CHOOSE i \in d : \A j \in d : i <= j

(***************************************************************************)
(* _chunkify: re.findall(r"\d+|\D+") and int() of the numeric chunks.      *)
(***************************************************************************)
Digits == {"0", "1", "2", "3", "4", "5", "6", "7", "8", "9"}

DigitVal(c) == Ord(c) - 48

IsDigit(c) == c \in Digits

\* the length of the maximal run of characters of the kind of Head(s)
RECURSIVE RunLen(_, _)
RunLen(s, digit) ==
    IF s = <<>> \/ IsDigit(Head(s)) # digit THEN 0
    ELSE 1 + RunLen(Tail(s), digit)

\* int(chunk) of a run of decimal digits
RECURSIVE ToInt(_)
ToInt(s) ==
    IF s = <<>> THEN 0
    ELSE 10 * ToInt(SubSeq(s, 1, Len(s) - 1)) + DigitVal(s[Len(s)])

\* a chunk is an int (num = TRUE, n) or a str (num = FALSE, s)
IntChunk(n) == [num |-> TRUE, n |-> n, s |-> <<>>]

StrChunk(s) == [num |-> FALSE, n |-> 0, s |-> s]

\* chunks without the conversion of the digit runs by int()
RECURSIVE _chunkify_without_int(_)
_chunkify_without_int(string) ==
    IF string = <<>> THEN <<>>
    ELSE LET k == RunLen(string, IsDigit(Head(string)))
         IN <<StrChunk(SubSeq(string, 1, k))>>
                \o _chunkify_without_int(SubSeq(string, k + 1, Len(string)))

RECURSIVE _chunkify(_)
_chunkify(string) ==
    IF string = <<>> THEN <<>>
    ELSE LET digit == IsDigit(Head(string))
             k == RunLen(string, digit)
             chunk == SubSeq(string, 1, k)
             rest == SubSeq(string, k + 1, Len(string))
         IN <<IF digit THEN IntChunk(ToInt(chunk)) ELSE StrChunk(chunk)>>
                \o _chunkify(rest)

(***************************************************************************)
(* Comparison of two chunk lists as Python compares lists: the first       *)
(* differing position decides, by int or by str order, and raises          *)
(* TypeError when an int meets a str there; without one the shorter list   *)
(* is the smaller.  A result is [raised, value].                           *)
(***************************************************************************)
Returned(v) == [raised |-> FALSE, value |-> v]

RaisedBool == [raised |-> TRUE, value |-> FALSE]

RaisedInt == [raised |-> TRUE, value |-> 0]

\* x > y for two chunks that differ
ChunkGreater(x, y) ==
    IF x.num # y.num THEN RaisedBool
    ELSE IF x.num THEN Returned(x.n > y.n)
    ELSE Returned(StrLess(y.s, x.s))

\* this_chunks > other_chunks, for lists that differ
ListGreater(this_chunks, other_chunks) ==
    LET d == FirstDiff(this_chunks, other_chunks)
    IN IF d = 0 THEN Returned(Len(this_chunks) > Len(other_chunks))
       ELSE ChunkGreater(this_chunks[d], other_chunks[d])

\* a comparison of the collector numbers as plain strings
NumberCompareAsStrings(this_number, other_number) ==
    IF this_number # other_number
    THEN Returned(IF StrLess(other_number, this_number) THEN 1 ELSE -1)
    ELSE Returned(0)

\* the tie-break of _card_compare on two collector numbers
NumberCompare(this_number, other_number) ==
    LET this_chunks == _chunkify(this_number)
        other_chunks == _chunkify(other_number)
    IN IF this_chunks # other_chunks
       THEN LET g == ListGreater(this_chunks, other_chunks)
            IN IF g.raised THEN RaisedInt
               ELSE Returned(IF g.value THEN 1 ELSE -1)
       ELSE Returned(0)

(***************************************************************************)
(* The sets of the set-metadata service and SetRepository.                 *)
(* A release date is the service's ISO string, here its two-character      *)
(* year; dates are compared as strings, as the program compares them.      *)
(***************************************************************************)
LEA == <<"L", "E", "A">>
LEB == <<"L", "E", "B">>
ARN == <<"A", "R", "N">>
ZNR == <<"Z", "N", "R">>
ZNC == <<"Z", "N", "C">>
PDRC == <<"P", "D", "R", "C">>
PHPR == <<"P", "H", "P", "R">>
FourthEdition == <<"4", "E", "D">>

_SET_TYPES ==
    {"starter", "core", "expansion",
     "commander", "draft_innovation", "planechase", "archenemy"}

_BLACKLISTED_SET_CODES == {LEA, FourthEdition}

\* what the service knows: code, type, release_date
AllSets ==
    {[code |-> LEA, type |-> "core", release_date |-> <<"0", "1">>],
     [code |-> LEB, type |-> "core", release_date |-> <<"0", "5">>],
     [code |-> FourthEdition, type |-> "core", release_date |-> <<"0", "7">>],
     [code |-> ARN, type |-> "expansion", release_date |-> <<"0", "9">>],
     [code |-> ZNR, type |-> "expansion", release_date |-> <<"1", "0">>],
     [code |-> ZNC, type |-> "commander", release_date |-> <<"1", "0">>],
     [code |-> PDRC, type |-> "promo", release_date |-> <<"0", "0">>]}

\* Set.where(type=...).all()
Set_where(types) == {s \in AllSets : s.type \in types}

\* a repository that keeps the blacklisted sets
_sets_without_blacklist == Set_where(_SET_TYPES)

\* SetRepository._sets, as the set of its values
_sets == {s \in Set_where(_SET_TYPES) : s.code \notin _BLACKLISTED_SET_CODES}

\* SetRepository.__contains__
SetRepoContains(code) == \E s \in _sets : s.code = code

\* SetRepository.__getitem__
SetRepoGet(code) == CHOOSE s \in _sets : s.code = code

_card_date(card) == SetRepoGet(card.set).release_date

_card_compare(this, other) ==
    LET this_date == _card_date(this)
        other_date == _card_date(other)
    IN IF this_date # other_date
       THEN Returned(IF StrLess(other_date, this_date) THEN 1 ELSE -1)
       ELSE NumberCompare(this.number, other.number)

(***************************************************************************)
(* Names and buckets of the model's page and oracle.                       *)
(***************************************************************************)
Fire == <<"F", "i", "r", "e">>
Ice == <<"I", "c", "e">>
Fireball == <<"F", "i", "r", "e", "b", "a", "l", "l">>
ManaCrypt == <<"M", "a", "n", "a", " ", "C", "r", "y", "p", "t">>
NalathniDragon ==
    <<"N", "a", "l", "a", "t", "h", "n", "i", " ", "D", "r", "a", "g", "o", "n">>
BlackLotus == <<"B", "l", "a", "c", "k", " ", "L", "o", "t", "u", "s">>
SakuraTribeElderTypo ==
    <<"S", "a", "k", "u", "r", "a", " ", "T", "r", "i", "b", "e", " ",
      "E", "l", "d", "e", "r">>
SakuraTribeElder ==
    <<"S", "a", "k", "u", "r", "a", "-", "T", "r", "i", "b", "e", " ",
      "E", "l", "d", "e", "r">>
Red == <<"R", "e", "d">>
Artifact == <<"A", "r", "t", "i", "f", "a", "c", "t">>

separator == <<" ", "/", "/", " ">>

\* "Fire // Ice"
FireIce == Fire \o separator \o Ice

(***************************************************************************)
(* CardNameSanitizer (two names of its table are enough for the model).    *)
(***************************************************************************)
_TYPOS == {[typo |-> SakuraTribeElderTypo, fixed |-> SakuraTribeElder]}

sanitize(name) ==
    IF \E t \in _TYPOS : t.typo = name
    THEN (CHOOSE t \in _TYPOS : t.typo = name).fixed
    ELSE name

(***************************************************************************)
(* ExtraCardRepository (two cards of its table).                           *)
(***************************************************************************)
_EXTRAS ==
    {[name |-> NalathniDragon, info |-> <<PDRC, <<"1">>>>],
     [name |-> ManaCrypt, info |-> <<PHPR, <<"5">>>>]}

\* ExtraCardRepository.__contains__
ExtraContains(name) == \E e \in _EXTRAS : e.name = name

\* ExtraCardRepository.__getitem__: (name,) + self._cards[name]
ExtraGet(name) == <<name>> \o (CHOOSE e \in _EXTRAS : e.name = name).info

(***************************************************************************)
(* The oracle, Card.where(name=...).all(): every print whose name contains *)
(* the queried name, in an order the service chooses.                      *)
(***************************************************************************)
Card(name, set, number, names) ==
    [name |-> name, set |-> set, number |-> number, names |-> names]

CardDB ==
    {Card(Fire, ZNR, <<"9", "a">>, <<Fire, Ice>>),
     Card(Ice, ZNR, <<"9", "b">>, <<Fire, Ice>>),
     Card(Ice, ZNC, <<"9", "b">>, <<Fire, Ice>>),
     Card(Fireball, LEA, <<"1">>, <<>>),
     Card(Fireball, LEB, <<"1", "0">>, <<>>),
     Card(Fireball, LEB, <<"9">>, <<>>),
     Card(ManaCrypt, LEB, <<"1">>, <<>>),
     Card(SakuraTribeElder, ARN, <<"5">>, <<>>)}

\* the sequences that list every element of the finite set S once
RECURSIVE Orderings(_)
Orderings(S) ==
    IF S = {} THEN {<<>>}
    ELSE UNION {{<<x>> \o o : o \in Orderings(S \ {x})} : x \in S}

\* the responses the oracle may give to a query for name
Card_where(name) == Orderings({c \in CardDB : Contains(c.name, name)})

(***************************************************************************)
(* min(cards, key=cmp_to_key(comparator)): each later item replaces the    *)
(* current minimum when comparator(item, minimum) < 0.  A result is        *)
(* [raised, card]; raised is "" or the name of the exception.              *)
(***************************************************************************)
NoCard == Card(<<>>, <<>>, <<>>, <<>>)

Fetched(card) == [raised |-> "", card |-> card]

FetchRaised(exception) == [raised |-> exception, card |-> NoCard]

RECURSIVE MinFrom(_, _, _)
MinFrom(items, i, current) ==
    IF i > Len(items) THEN Fetched(current)
    ELSE LET r == _card_compare(items[i], current)
         IN IF r.raised THEN FetchRaised("TypeError")
            ELSE MinFrom(items, i + 1, IF r.value < 0 THEN items[i] ELSE current)

Min(items) ==
    IF items = <<>> THEN FetchRaised("ValueError")
    ELSE MinFrom(items, 2, items[1])

\* the list comprehension without its test of the exact name
RECURSIVE CandidatesAnyName(_, _)
CandidatesAnyName(response, name) ==
    IF response = <<>> THEN <<>>
    ELSE LET card == Head(response)
             rest == CandidatesAnyName(Tail(response), name)
         IN IF SetRepoContains(card.set) THEN <<card>> \o rest ELSE rest

\* the list comprehension of _fetch_oldest: the subsequence of the response
\* with the exact name and a set of the set repository
RECURSIVE Candidates(_, _)
Candidates(response, name) ==
    IF response = <<>> THEN <<>>
    ELSE LET card == Head(response)
             rest == Candidates(Tail(response), name)
         IN IF card.name = name /\ SetRepoContains(card.set)
            THEN <<card>> \o rest
            ELSE rest

\* the body of _fetch_oldest, on the response of Card.where(name=name)
_fetch_oldest(name, response) == Min(Candidates(response, name))

(***************************************************************************)
(* translator: the decorator of _fetch_oldest.                             *)
(***************************************************************************)
serialize_card_by_name(name) ==
    IF Contains(name, separator)
    THEN SubSeq(name, 1, Find(name, separator) - 1)
    ELSE name

\* separator.join(names)
RECURSIVE Join(_)
Join(names) ==
    IF names = <<>> THEN <<>>
    ELSE IF Len(names) = 1 THEN names[1]
    ELSE names[1] \o separator \o Join(Tail(names))

\* name in names, for a list of names
InList(name, names) == \E i \in 1..Len(names) : names[i] = name

\* the face names joined whenever the print has face names
deserialize_card_always_joined(card, name) ==
    IF card.names # <<>> THEN Join(card.names) ELSE card.name

deserialize_card(card, name) ==
    IF card.names # <<>> /\ ~InList(name, card.names)
    THEN Join(card.names)
    ELSE card.name

\* translate, given the response to the query for serialize_card_by_name(name):
\* [raised, info], info the tuple (name, card.set, card.number)
translate(name, response) ==
    LET f == _fetch_oldest(serialize_card_by_name(name), response)
    IN IF f.raised # "" THEN [raised |-> f.raised, info |-> <<>>]
       ELSE [raised |-> "",
             info |-> <<deserialize_card(f.card, name), f.card.set, f.card.number>>]

(***************************************************************************)
(* CubeEntryMapper.                                                        *)
(***************************************************************************)
RawCubeEntry(name, bucket) == [name |-> name, bucket |-> bucket]

CubeEntry(name, number, set_code, bucket) ==
    [name |-> name, number |-> number, set_code |-> set_code, bucket |-> bucket]

\* _obtain_from_api: name, code, number = info
_obtain_from_api(entry, info) == CubeEntry(info[1], info[3], info[2], entry.bucket)

\* the set code and the collector number taken in the order of the table
_obtain_from_extra_swapped(entry) ==
    LET info == ExtraGet(entry.name)
    IN CubeEntry(info[1], info[2], info[3], entry.bucket)

_obtain_from_extra(entry) ==
    LET info == ExtraGet(entry.name)
    IN CubeEntry(info[1], info[3], info[2], entry.bucket)

(***************************************************************************)
(* Cube: collections.Counter(cards), as the list of its (card, quantity)   *)
(* items in the order a Counter keeps them, that of first occurrence.      *)
(***************************************************************************)
IndexOf(items, card) ==
    IF \E i \in 1..Len(items) : items[i][1] = card
    THEN CHOOSE i \in 1..Len(items) : items[i][1] = card
    ELSE 0

\* the distinct cards, every one counted once
RECURSIVE CounterFromWithoutCount(_, _)
CounterFromWithoutCount(list, items) ==
    IF list = <<>> THEN items
    ELSE CounterFromWithoutCount(Tail(list),
            IF IndexOf(items, Head(list)) = 0
            THEN Append(items, <<Head(list), 1>>)
            ELSE items)

RECURSIVE CounterFrom(_, _)
CounterFrom(list, items) ==
    IF list = <<>> THEN items
    ELSE LET card == Head(list)
             k == IndexOf(items, card)
         IN CounterFrom(Tail(list),
                IF k = 0 THEN Append(items, <<card, 1>>)
                ELSE [items EXCEPT ![k] = <<card, items[k][2] + 1>>])

Counter(list) == CounterFrom(list, <<>>)

\* Cube.__len__
CubeLen(items) ==
    LET RECURSIVE Sum(_)
        Sum(q) == IF q = <<>> THEN 0 ELSE Head(q)[2] + Sum(Tail(q))
    IN Sum(items)

(***************************************************************************)
(* The order of CubeEntry, dataclass(order=True): the tuples of fields     *)
(* (name, number, set_code, bucket) compared as Python compares tuples of  *)
(* str; and the order of the (card, quantity) tuples that are sorted.      *)
(***************************************************************************)
Fields(card) == <<card.name, card.number, card.set_code, card.bucket>>

\* CubeEntry.__lt__
CubeEntryLess(this, other) ==
    LET d == FirstDiff(Fields(this), Fields(other))
    IN d # 0 /\ StrLess(Fields(this)[d], Fields(other)[d])

\* (card, quantity) < (card, quantity)
PairLess(p, q) ==
    IF p[1] # q[1] THEN CubeEntryLess(p[1], q[1]) ELSE p[2] < q[2]

\* list.sort(): a stable sort, here by insertion
RECURSIVE Insert(_, _)
Insert(sorted, p) ==
    IF sorted = <<>> THEN <<p>>
    ELSE IF PairLess(p, Head(sorted)) THEN <<p>> \o sorted
    ELSE <<Head(sorted)>> \o Insert(Tail(sorted), p)

\* the list left as it was appended to
Unsorted(list) == list

RECURSIVE Sort(_)
Sort(list) ==
    IF list = <<>> THEN <<>>
    ELSE Insert(Sort(SubSeq(list, 1, Len(list) - 1)), list[Len(list)])

(***************************************************************************)
(* XMageExporter._bucketize: a dict bucket -> list, as the list of its     *)
(* [name, items] in insertion order, every list sorted.                    *)
(***************************************************************************)
BucketIndex(buckets, name) ==
    IF \E i \in 1..Len(buckets) : buckets[i].name = name
    THEN CHOOSE i \in 1..Len(buckets) : buckets[i].name = name
    ELSE 0

RECURSIVE Grouped(_, _)
Grouped(items, buckets) ==
    IF items = <<>> THEN buckets
    ELSE LET p == Head(items)
             k == BucketIndex(buckets, p[1].bucket)
         IN Grouped(Tail(items),
                IF k = 0
                THEN Append(buckets, [name |-> p[1].bucket, items |-> <<p>>])
                ELSE [buckets EXCEPT ![k].items = Append(@, p)])

_bucketize(items) ==
    LET buckets == Grouped(items, <<>>)
    IN [i \in 1..Len(buckets) |->
           [name |-> buckets[i].name, items |-> Sort(buckets[i].items)]]

(***************************************************************************)
(* XMageExporter.format: the text, as the list of its lines.               *)
(***************************************************************************)
\* _UnicodeToAsciiCollectorNumberTransformer.transform
transform(number) ==
    [i \in 1..Len(number) |->
        IF number[i] = "u2020" THEN "+"
        ELSE IF number[i] = "u2605" THEN "*"
        ELSE number[i]]

\* str(quantity)
RECURSIVE IntToStr(_)
IntToStr(n) ==
    IF n < 10 THEN <<Ascii[17 + n]>>
    ELSE IntToStr(n \div 10) \o <<Ascii[17 + (n % 10)]>>

\* what the scraper read from the page besides the entries
CubeName == <<"C", "u", "b", "e">>
CubeDate == <<"0", "1", ".", "0", "1", ".", "2", "0", "2", "1">>
CubeAuthor == <<"W", "o", "t", "C">>

_preamble ==
    << <<"N", "A", "M", "E", ":">> \o CubeName \o <<" ", "(">> \o CubeDate \o <<")">>,
       <<"A", "U", "T", "H", "O", "R", ":">> \o CubeAuthor >>

CardLine(p) ==
    IntToStr(p[2]) \o <<" ", "[">> \o p[1].set_code \o <<":">>
        \o transform(p[1].number) \o <<"]", " ">> \o p[1].name

RECURSIVE Content(_)
Content(buckets) ==
    IF buckets = <<>> THEN <<>>
    ELSE LET b == Head(buckets)
         IN << <<>>, <<"#", " ">> \o b.name >>
                \o [i \in 1..Len(b.items) |-> CardLine(b.items[i])]
                \o Content(Tail(buckets))

format(items) == _preamble \o Content(_bucketize(items))

(***************************************************************************)
(* tools/minimize.py.  A path is a str; pathlib's name, suffix and stem    *)
(* are computed from it.  The files are a function from paths to           *)
(* [exists, lines]; the lines of a file are the strings that iterating the *)
(* open file yields, each with its line break, written "LF" (a tabulator   *)
(* is written "TAB").  A result is [raised, fs]: "" or the name of the     *)
(* exception, and the files after the call.                                *)
(***************************************************************************)
\* the characters str.strip() removes, as far as the model's lines hold them
Whitespace == {" ", "TAB", "LF"}

RECURSIVE LStrip(_)
LStrip(s) ==
    IF s # <<>> /\ Head(s) \in Whitespace THEN LStrip(Tail(s)) ELSE s

RECURSIVE RStrip(_)
RStrip(s) ==
    IF s # <<>> /\ s[Len(s)] \in Whitespace
    THEN RStrip(SubSeq(s, 1, Len(s) - 1)) ELSE s

\* str.strip()
strip(s) == RStrip(LStrip(s))

_is_empty(line) == strip(line) = <<>>

_is_comment(line) == StartsWith(line, <<"#">>)

\* an ignore test that keeps the comments
_is_xmage_ignored_only_empty(line) == _is_empty(line)

_is_xmage_ignored(line) == _is_empty(line) \/ _is_comment(line)

\* the last position of character c in s, 0 if there is none
RFind(s, c) ==
    LET hits == {i \in 1..Len(s) : s[i] = c}
    IN IF hits = {} THEN 0 ELSE CHOOSE i \in hits : \A j \in hits : j <= i

\* Path.name: the final component
PathName(path) == SubSeq(path, RFind(path, "/") + 1, Len(path))

\* Path.suffix: the name from its last dot on, unless that dot is the first
\* or the last character of the name
PathSuffix(path) ==
    LET name == PathName(path)
        i == RFind(name, ".")
    IN IF 1 < i /\ i < Len(name) THEN SubSeq(name, i, Len(name)) ELSE <<>>

\* Path.stem: the name without its suffix
PathStem(path) ==
    LET name == PathName(path)
    IN SubSeq(name, 1, Len(name) - Len(PathSuffix(path)))

_MINIMIZED_EXTENSION == <<".", "m", "i", "n">>

_XMAGE_FILE_EXTENSION == <<".", "d", "c", "k">>

_minimized_name(path) ==
    PathStem(path) \o _MINIMIZED_EXTENSION \o PathSuffix(path)

\* a validation that accepts every path
_is_valid_xmage_file_always(path) == TRUE

_is_valid_xmage_file(path) == PathSuffix(path) = _XMAGE_FILE_EXTENSION

\* to=None
None == <<>>

NoFile == [exists |-> FALSE, lines |-> <<>>]

\* the lines of the loop "for line in in_stream" that are written
Written(lines) == SelectSeq(lines, LAMBDA line : ~_is_xmage_ignored(line))

\* XMageDeckFile.minimize: open(self._file, "r") raises when the file is
\* absent; open(to, "w") then creates or truncates the target, before the
\* first line is read
XMageDeckFile_minimize(fs, path, to) ==
    LET target == IF to = None THEN _minimized_name(path) ELSE to
    IN IF ~fs[path].exists
       THEN [raised |-> "FileNotFoundError", fs |-> fs]
       ELSE LET opened == [fs EXCEPT ![target] = [exists |-> TRUE, lines |-> <<>>]]
            IN [raised |-> "",
                fs |-> [opened EXCEPT
                           ![target].lines = Written(opened[path].lines)]]

\* minimize(file, to): XMageDeckFile(file) raises ValueError for a path that
\* is not valid, before any file is opened
minimize(fs, path, to) ==
    IF ~_is_valid_xmage_file(path)
    THEN [raised |-> "ValueError", fs |-> fs]
    ELSE XMageDeckFile_minimize(fs, path, to)

\* the text written by Exporter.export, as the lines a reader of the file
\* gets: format ends every line with a line break
TextLines(lines) == [i \in 1..Len(lines) |-> lines[i] \o <<"LF">>]

(***************************************************************************)
(* The run of generate(file, url) under _main.                             *)
(***************************************************************************)
Idle == [phase |-> "idle"]

\* the oracle when its answers are not held fixed
NotFixed == [fixed |-> FALSE, answers |-> <<>>]

\* the rows of the scraped page
PageRows ==
    {RawCubeEntry(Fire, Red), RawCubeEntry(Ice, Red),
     RawCubeEntry(FireIce, Red), RawCubeEntry(Fireball, Red),
     RawCubeEntry(Fireball, Artifact), RawCubeEntry(ManaCrypt, Artifact),
     RawCubeEntry(BlackLotus, Artifact),
     RawCubeEntry(SakuraTribeElderTypo, Red)}

\* the sequences over S of length at most n
SeqsUpTo(S, n) == UNION {[1..k -> S] : k \in 0..n}

\* what the file held before the run, when it existed
OldLines == << <<"o", "l", "d">> >>

Init ==
    /\ pc = "start"
    /\ file \in {[exists |-> FALSE, lines |-> <<>>, written |-> FALSE],
                 [exists |-> TRUE, lines |-> OldLines, written |-> FALSE]}
    /\ raw = <<>>
    /\ idx = 0
    /\ cards = <<>>
    /\ cache = <<>>
    /\ queries = <<>>
    /\ failure = "none"
    /\ minSt = Idle
    /\ oracle = NotFixed
    /\ cmpSt = Idle
    /\ selSt = Idle
    /\ aggSt = Idle

\* _main's except clause: _error(exception), sys.exit(message)
Abort(exception) ==
    /\ pc' = "aborted"
    /\ failure' = exception

\* generate: open(file, "a+") creates the file when it is missing
Touch ==
    /\ pc = "start"
    /\ pc' = "opened"
    /\ file' = [file EXCEPT !.exists = TRUE]
    /\ UNCHANGED <<raw, idx, cards, cache, queries, failure, cmpSt, selSt, aggSt, minSt, oracle>>

\* generate: open(file, "a+") raises (the target cannot be opened)
TouchFails ==
    /\ pc = "start"
    /\ Abort("OSError")
    /\ UNCHANGED <<file, raw, idx, cards, cache, queries, cmpSt, selSt, aggSt, minSt, oracle>>

\* CubeScraper.execute: the rows of the page, every name sanitized
Scrape ==
    /\ pc = "opened"
    /\ \E rows \in SeqsUpTo(PageRows, MaxItems) :
          raw' = [i \in 1..Len(rows) |->
                     RawCubeEntry(sanitize(rows[i].name), rows[i].bucket)]
    /\ pc' = "mapping"
    /\ UNCHANGED <<file, idx, cards, cache, queries, failure, cmpSt, selSt, aggSt, minSt, oracle>>

\* CubeScraper._scrap: requests.get or raise_for_status raises
ScrapeFails ==
    /\ pc = "opened"
    /\ Abort("HTTPError")
    /\ UNCHANGED <<file, raw, idx, cards, cache, queries, cmpSt, selSt, aggSt, minSt, oracle>>

\* the entry Cube.from_raw maps next
Entry == raw[idx + 1]

Mapping == pc = "mapping" /\ idx < Len(raw)

\* the action of Cube.from_raw on the card mapper.map(entry) returned
Mapped(card) ==
    /\ cards' = Append(cards, card)
    /\ idx' = idx + 1

\* a cache that is keyed by the name of the entry alone
MapCachedByName ==
    /\ Mapping
    /\ \E e \in DOMAIN cache :
          /\ e.name = Entry.name
          /\ Mapped(cache[e])
    /\ UNCHANGED <<pc, file, raw, cache, queries, failure, cmpSt, selSt, aggSt,
                   minSt, oracle>>

\* mapper.map(entry), entry in the cache of functools.cache
MapCached ==
    /\ Mapping
    /\ Entry \in DOMAIN cache
    /\ Mapped(cache[Entry])
    /\ UNCHANGED <<pc, file, raw, cache, queries, failure, cmpSt, selSt, aggSt, minSt, oracle>>

\* mapper.map(entry), a cache miss on a name of the extra card repository
MapExtra ==
    /\ Mapping
    /\ Entry \notin DOMAIN cache
    /\ ExtraContains(Entry.name)
    /\ LET card == _obtain_from_extra(Entry)
       IN /\ Mapped(card)
          /\ cache' = (Entry :> card) @@ cache
    /\ UNCHANGED <<pc, file, raw, queries, failure, cmpSt, selSt, aggSt, minSt, oracle>>

\* Card.where(name=name).all(): any of the oracle's responses, or the one
\* response of an oracle that is held fixed
Card_where_all(name) ==
    IF oracle.fixed THEN {oracle.answers[name]} ELSE Card_where(name)

\* the record of one call of Card.where
Query(entry, name) == [entry |-> entry, name |-> name]

\* map without functools.cache: the record is not kept
MapApiUncached ==
    /\ Mapping
    /\ ~ExtraContains(Entry.name)
    /\ LET name == serialize_card_by_name(Entry.name)
       IN /\ queries' = Append(queries, Query(Entry, name))
          /\ \E response \in Card_where(name) :
                LET t == translate(Entry.name, response)
                IN IF t.raised # ""
                   THEN /\ Abort(t.raised)
                        /\ UNCHANGED <<cards, idx>>
                   ELSE /\ Mapped(_obtain_from_api(Entry, t.info))
                        /\ UNCHANGED <<pc, failure>>
    /\ UNCHANGED <<file, raw, cache, cmpSt, selSt, aggSt, minSt, oracle>>

\* mapper.map(entry), a cache miss on any other name: one query of the
\* oracle, and the print chosen from its response, or the exception raised
MapApi ==
    /\ Mapping
    /\ Entry \notin DOMAIN cache
    /\ ~ExtraContains(Entry.name)
    /\ LET name == serialize_card_by_name(Entry.name)
       IN /\ queries' = Append(queries, Query(Entry, name))
          /\ \E response \in Card_where_all(name) :
                LET t == translate(Entry.name, response)
                IN IF t.raised # ""
                   THEN /\ Abort(t.raised)
                        /\ UNCHANGED <<cards, idx, cache>>
                   ELSE LET card == _obtain_from_api(Entry, t.info)
                        IN /\ Mapped(card)
                           /\ cache' = (Entry :> card) @@ cache
                           /\ UNCHANGED <<pc, failure>>
    /\ UNCHANGED <<file, raw, cmpSt, selSt, aggSt, minSt, oracle>>

\* mapper.map(entry), the query of the oracle raises (transport, rate limit)
MapApiFails ==
    /\ Mapping
    /\ Entry \notin DOMAIN cache
    /\ ~ExtraContains(Entry.name)
    /\ queries' = Append(queries, Query(Entry, serialize_card_by_name(Entry.name)))
    /\ Abort("MtgException")
    /\ UNCHANGED <<file, raw, idx, cards, cache, cmpSt, selSt, aggSt, minSt, oracle>>

\* an export of the cards mapped so far, at any time
ExportWhatIsMapped ==
    /\ pc = "mapping"
    /\ LET cube == Counter(cards)
       IN /\ file' = [exists |-> TRUE, lines |-> format(cube), written |-> TRUE]
          /\ aggSt' = [phase |-> "done", cards |-> cards, entries |-> cube,
                       buckets |-> _bucketize(cube)]
    /\ pc' = "exported"
    /\ UNCHANGED <<raw, idx, cards, cache, queries, failure, cmpSt, selSt, minSt, oracle>>

\* Exporter.export, once every entry is mapped: format, then open(file, "w")
\* and write
Export ==
    /\ pc = "mapping"
    /\ idx = Len(raw)
    /\ LET cube == Counter(cards)
       IN /\ file' = [exists |-> TRUE, lines |-> format(cube), written |-> TRUE]
          /\ aggSt' = [phase |-> "done", cards |-> cards, entries |-> cube,
                       buckets |-> _bucketize(cube)]
    /\ pc' = "exported"
    /\ UNCHANGED <<raw, idx, cards, cache, queries, failure, cmpSt, selSt, minSt, oracle>>

\* test_minimize_vintage_cube: minimize(deck, file) of the deck generate wrote,
\* into a file of a fresh temporary directory
CubePath == <<"c", "u", "b", "e", ".", "d", "c", "k">>
TestPath == <<"t", "e", "s", "t", ".", "d", "c", "k">>

MinimizeCube ==
    /\ pc = "exported"
    /\ minSt.phase = "idle"
    /\ LET before == [p \in {CubePath, TestPath} |->
                         IF p = CubePath
                         THEN [exists |-> TRUE, lines |-> TextLines(file.lines)]
                         ELSE NoFile]
           result == minimize(before, CubePath, TestPath)
       IN minSt' = [phase |-> "done", file |-> CubePath, to |-> TestPath,
                    before |-> before, fs |-> result.fs,
                    raised |-> result.raised]
    /\ UNCHANGED <<pc, file, raw, idx, cards, cache, queries, failure, cmpSt,
                   selSt, aggSt, oracle>>

Next ==
    \/ Touch
    \/ TouchFails
    \/ Scrape
    \/ ScrapeFails
    \/ MapCached
    \/ MapExtra
    \/ MapApi
    \/ MapApiFails
    \/ Export
    \/ MinimizeCube

Spec == Init /\ [][Next]_vars

(***************************************************************************)
(* The comparison of collector numbers on drawn inputs.                    *)
(***************************************************************************)
NumberChars == {"0", "1", "9", "a", "b"}

\* the collector numbers drawn: every string over NumberChars up to MaxNumLen
Numbers == SeqsUpTo(NumberChars, MaxNumLen)

InitCmp ==
    /\ pc = "cmp"
    /\ file = [exists |-> FALSE, lines |-> <<>>, written |-> FALSE]
    /\ raw = <<>>
    /\ idx = 0
    /\ cards = <<>>
    /\ cache = <<>>
    /\ queries = <<>>
    /\ failure = "none"
    /\ minSt = Idle
    /\ oracle = NotFixed
    /\ \E a \in Numbers, b \in Numbers :
          cmpSt = [phase |-> "input", a |-> a, b |-> b,
                   ab |-> RaisedInt, ba |-> RaisedInt]
    /\ selSt = Idle
    /\ aggSt = Idle

\* the tie-break of _card_compare, on two prints of one release, both ways
Compare ==
    /\ cmpSt.phase = "input"
    /\ cmpSt' = [cmpSt EXCEPT !.phase = "done",
                              !.ab = NumberCompare(cmpSt.a, cmpSt.b),
                              !.ba = NumberCompare(cmpSt.b, cmpSt.a)]
    /\ UNCHANGED <<pc, file, raw, idx, cards, cache, queries, failure, selSt, aggSt, minSt, oracle>>

NextCmp == Compare

SpecCmp == InitCmp /\ [][NextCmp]_vars

(***************************************************************************)
(* _fetch_oldest on drawn oracle responses.                                *)
(***************************************************************************)
\* the prints the oracle may hold for a query of "Fire"
Prints ==
    {Card(Fire, LEA, <<"9">>, <<>>),
     Card(Fire, PDRC, <<"9">>, <<>>),
     Card(Fire, FourthEdition, <<"9">>, <<>>),
     Card(Fire, LEB, <<"9">>, <<>>),
     Card(Fire, LEB, <<"1", "0">>, <<>>),
     Card(Fire, LEB, <<"a">>, <<>>),
     Card(Fire, ZNR, <<"9">>, <<>>),
     Card(Fire, ZNC, <<"9">>, <<>>),
     Card(Fire, ZNR, <<"1", "0">>, <<>>),
     Card(Fireball, LEB, <<"9">>, <<>>),
     Card(Fireball, ARN, <<"9">>, <<>>)}

\* the responses drawn: every list of at most MaxCands distinct prints
Responses ==
    {r \in SeqsUpTo(Prints, MaxCands) :
        \A i \in 1..Len(r), j \in 1..Len(r) : i # j => r[i] # r[j]}

InitSel ==
    /\ pc = "sel"
    /\ file = [exists |-> FALSE, lines |-> <<>>, written |-> FALSE]
    /\ raw = <<>>
    /\ idx = 0
    /\ cards = <<>>
    /\ cache = <<>>
    /\ queries = <<>>
    /\ failure = "none"
    /\ minSt = Idle
    /\ oracle = NotFixed
    /\ cmpSt = Idle
    /\ \E r \in Responses :
          selSt = [phase |-> "input", name |-> Fire, response |-> r,
                   result |-> FetchRaised("")]
    /\ aggSt = Idle

\* _fetch_oldest(name) on the response drawn
FetchOldest ==
    /\ selSt.phase = "input"
    /\ selSt' = [selSt EXCEPT !.phase = "done",
                              !.result = _fetch_oldest(selSt.name, selSt.response)]
    /\ UNCHANGED <<pc, file, raw, idx, cards, cache, queries, failure, cmpSt, aggSt, minSt, oracle>>

NextSel == FetchOldest

SpecSel == InitSel /\ [][NextSel]_vars

(***************************************************************************)
(* Cube(Counter(cards)) and _bucketize on drawn lists of resolved cards.   *)
(***************************************************************************)
\* the resolved cards drawn
Entries ==
    {CubeEntry(n, k, c, b) :
        n \in {Fire, Ice}, k \in {<<"9">>, <<"1", "0">>},
        c \in {LEB, ARN}, b \in {Red, Artifact}}

InitAgg ==
    /\ pc = "agg"
    /\ file = [exists |-> FALSE, lines |-> <<>>, written |-> FALSE]
    /\ raw = <<>>
    /\ idx = 0
    /\ cards = <<>>
    /\ cache = <<>>
    /\ queries = <<>>
    /\ failure = "none"
    /\ minSt = Idle
    /\ oracle = NotFixed
    /\ cmpSt = Idle
    /\ selSt = Idle
    /\ \E list \in SeqsUpTo(Entries, MaxCards) :
          aggSt = [phase |-> "input", cards |-> list, entries |-> <<>>,
                   buckets |-> <<>>]

\* collections.Counter(cards), then XMageExporter._bucketize(cube)
Bucketize ==
    /\ aggSt.phase = "input"
    /\ LET cube == Counter(aggSt.cards)
       IN aggSt' = [aggSt EXCEPT !.phase = "done", !.entries = cube,
                                 !.buckets = _bucketize(cube)]
    /\ UNCHANGED <<pc, file, raw, idx, cards, cache, queries, failure, cmpSt, selSt, minSt, oracle>>

NextAgg == Bucketize

SpecAgg == InitAgg /\ [][NextAgg]_vars

(***************************************************************************)
(* minimize(file, to) on drawn paths and files.                            *)
(***************************************************************************)
\* the lines drawn, without their line break: empty, blank, comments, a
\* comment behind a blank, data, data holding the comment prefix, data
\* between blanks
DeckLines ==
    {<<>>, <<" ">>, <<"TAB">>, <<"#">>, <<"#", " ", "x">>, <<" ", "#">>,
     <<"x">>, <<"x", "#">>, <<" ", "x", " ">>}

\* the files drawn: at most MaxLines lines, the last one with or without its
\* line break
Decks ==
    LET contents == SeqsUpTo(DeckLines, MaxLines)
    IN {TextLines(c) : c \in contents}
       \cup {[TextLines(c) EXCEPT ![Len(c)] = c[Len(c)]] :
                c \in {d \in contents : d # <<>> /\ d[Len(d)] # <<>>}}

\* a deck in a directory, this script, and a file named only ".dck"
DeckPath == <<"t", "/", "d", ".", "d", "c", "k">>
ScriptPath == <<"m", ".", "p", "y">>
HiddenPath == <<".", "d", "c", "k">>
OutPath == <<"o", ".", "d", "c", "k">>

InputPaths == {DeckPath, ScriptPath, HiddenPath}

AllPaths == InputPaths \cup {OutPath} \cup {_minimized_name(p) : p \in InputPaths}

\* what another file held before the call, when it existed
OldDeck == << <<"o", "l", "d", "LF">> >>

InitMin ==
    /\ pc = "min"
    /\ file = [exists |-> FALSE, lines |-> <<>>, written |-> FALSE]
    /\ raw = <<>>
    /\ idx = 0
    /\ cards = <<>>
    /\ cache = <<>>
    /\ queries = <<>>
    /\ failure = "none"
    /\ cmpSt = Idle
    /\ selSt = Idle
    /\ aggSt = Idle
    /\ oracle = NotFixed
    /\ \E path \in InputPaths :
       \E to \in {None, OutPath, path},
          input \in {NoFile} \cup {[exists |-> TRUE, lines |-> d] : d \in Decks},
          other \in {NoFile, [exists |-> TRUE, lines |-> OldDeck]} :
          LET before == [p \in AllPaths |-> IF p = path THEN input ELSE other]
          IN minSt = [phase |-> "input", file |-> path, to |-> to,
                      before |-> before, fs |-> before, raised |-> ""]

\* minimize(file, to)
Minimize ==
    /\ minSt.phase = "input"
    /\ LET result == minimize(minSt.fs, minSt.file, minSt.to)
       IN minSt' = [minSt EXCEPT !.phase = "done", !.fs = result.fs,
                                 !.raised = result.raised]
    /\ UNCHANGED <<pc, file, raw, idx, cards, cache, queries, failure, cmpSt,
                   selSt, aggSt, oracle>>

NextMin == Minimize

SpecMin == InitMin /\ [][NextMin]_vars

(***************************************************************************)
(* Cube.from_raw on drawn cubes, with the oracle held fixed: every query   *)
(* of a name gets the same response.                                       *)
(***************************************************************************)
\* the names map can pass to Card.where
QueryNames == {serialize_card_by_name(sanitize(row.name)) : row \in PageRows}

\* one of the responses to a query of name
Listing(name) == CHOOSE response \in Card_where(name) : TRUE

Reverse(s) == [i \in 1..Len(s) |-> s[Len(s) + 1 - i]]

\* the oracle states drawn: the prints of every response in one order, or in
\* the opposite order
Oracles ==
    {[fixed |-> TRUE, answers |-> [name \in QueryNames |-> Listing(name)]],
     [fixed |-> TRUE,
      answers |-> [name \in QueryNames |-> Reverse(Listing(name))]]}

InitMemo ==
    /\ pc = "mapping"
    /\ file = [exists |-> TRUE, lines |-> <<>>, written |-> FALSE]
    /\ \E rows \in SeqsUpTo(PageRows, MaxItems) :
          raw = [i \in 1..Len(rows) |->
                    RawCubeEntry(sanitize(rows[i].name), rows[i].bucket)]
    /\ idx = 0
    /\ cards = <<>>
    /\ cache = <<>>
    /\ queries = <<>>
    /\ failure = "none"
    /\ cmpSt = Idle
    /\ selSt = Idle
    /\ aggSt = Idle
    /\ minSt = Idle
    /\ oracle \in Oracles

NextMemo ==
    \/ MapCached
    \/ MapExtra
    \/ MapApi

SpecMemo == InitMemo /\ [][NextMemo]_vars

(***************************************************************************)
(* Definitions the properties below are stated with.                       *)
(***************************************************************************)
\* the entries mapped so far, by position in raw
Resolved == 1..Len(cards)

InOverrideTable(name) == \E e \in _EXTRAS : e.name = name

\* how many calls of Card.where were made while mapping entry
QueriesFor(entry) == Cardinality({k \in 1..Len(queries) : queries[k].entry = entry})

\* how often entry was mapped with success
TimesResolved(entry) == Cardinality({i \in Resolved : raw[i] = entry})

\* a set is eligible: of an allowed type and not blacklisted
Eligible(code) ==
    \E st \in AllSets :
        /\ st.code = code
        /\ st.type \in _SET_TYPES
        /\ code \notin _BLACKLISTED_SET_CODES

\* the release date of a set, as a number
DateOf(code) == ToInt((CHOOSE st \in AllSets : st.code = code).release_date)

(***************************************************************************)
(* C1.  Override priority: every raw item whose name is in the override    *)
(* table is mapped to (name, the table's set code, the table's collector   *)
(* number, the item's bucket), and no oracle query is ever made for such   *)
(* an item, although the oracle could resolve the name.                    *)
(***************************************************************************)
C1_OverridePriority ==
    /\ \A i \in Resolved :
          \A e \in _EXTRAS :
              raw[i].name = e.name =>
                  /\ cards[i].name = raw[i].name
                  /\ cards[i].set_code = e.info[1]
                  /\ cards[i].number = e.info[2]
                  /\ cards[i].bucket = raw[i].bucket
    /\ \A k \in 1..Len(queries) : ~InOverrideTable(queries[k].entry.name)
    /\ \A i \in Resolved :
          raw[i] = RawCubeEntry(ManaCrypt, Artifact) =>
              cards[i] = CubeEntry(ManaCrypt, <<"5">>, PHPR, Artifact)

\* Mana Crypt was mapped, after an entry that was resolved by the oracle, and
\* the oracle holds an eligible print of Mana Crypt
C1_Witness ==
    /\ \E i \in Resolved : i > 1 /\ raw[i] = RawCubeEntry(ManaCrypt, Artifact)
    /\ queries # <<>>
    /\ \E c \in CardDB : c.name = ManaCrypt /\ Eligible(c.set)

(***************************************************************************)
(* C2.  As claimed: each of the inputs "Fire", "Ice" and "Fire // Ice",    *)
(* whose prints report the face names ["Fire", "Ice"], resolves to the     *)
(* canonical name "Fire // Ice".                                           *)
(***************************************************************************)
C2_AlwaysCompositeName ==
    \A i \in Resolved :
        raw[i].name \in {Fire, Ice, FireIce} => cards[i].name = FireIce

(***************************************************************************)
(* C2, amended.  The input "Fire // Ice" resolves to the canonical name    *)
(* "Fire // Ice"; the single-face inputs "Fire" and "Ice" resolve to the   *)
(* name the oracle reports for the matched print, the face itself.         *)
(***************************************************************************)
C2_CompositeOnlyForCompositeInput ==
    \A i \in Resolved :
        /\ raw[i].name = FireIce => cards[i].name = FireIce
        /\ raw[i].name = Fire => cards[i].name = Fire
        /\ raw[i].name = Ice => cards[i].name = Ice

\* all three inputs were resolved in one run
C2_Witness ==
    /\ \E i \in Resolved : raw[i].name = Fire
    /\ \E i \in Resolved : raw[i].name = Ice
    /\ \E i \in Resolved : raw[i].name = FireIce /\ cards[i].name = FireIce

(***************************************************************************)
(* C3.  As claimed: the chunked comparison orders "9" < "10" < "9a".       *)
(***************************************************************************)
Nine == <<"9">>
Ten == <<"1", "0">>
NineA == <<"9", "a">>

Compared(a, b) == cmpSt.phase = "done" /\ cmpSt.a = a /\ cmpSt.b = b

C3_NineTenNineA ==
    /\ Compared(Nine, Ten) => cmpSt.ab = Returned(-1)
    /\ Compared(Ten, NineA) => cmpSt.ab = Returned(-1)
    /\ Compared(Nine, NineA) => cmpSt.ab = Returned(-1)

(***************************************************************************)
(* C3, amended.  The chunked comparison orders "9" < "9a" < "10": natural  *)
(* ordering, where the lexicographic order of strings is                   *)
(* "10" < "9" < "9a".                                                      *)
(***************************************************************************)
C3_NineNineATen ==
    /\ Compared(Nine, NineA) => cmpSt.ab = Returned(-1) /\ cmpSt.ba = Returned(1)
    /\ Compared(NineA, Ten) => cmpSt.ab = Returned(-1) /\ cmpSt.ba = Returned(1)
    /\ Compared(Nine, Ten) => cmpSt.ab = Returned(-1) /\ cmpSt.ba = Returned(1)
    /\ StrLess(Ten, Nine) /\ StrLess(Nine, NineA)

\* "9a" was compared with "10"
C3_Witness == Compared(NineA, Ten) /\ ~cmpSt.ab.raised

(***************************************************************************)
(* C4.  As claimed: on all strings the comparison is a strict total order: *)
(* it always yields a result, exactly one of a < b, a = b, b < a holds,    *)
(* with equality only for identical strings, and it is transitive.         *)
(***************************************************************************)
Before(a, b) == NumberCompare(a, b) = Returned(-1)

C4_StrictTotalOrder ==
    cmpSt.phase = "done" =>
        /\ ~cmpSt.ab.raised /\ ~cmpSt.ba.raised
        /\ cmpSt.ab.value = 0 <=> cmpSt.a = cmpSt.b
        /\ cmpSt.ab.value = -cmpSt.ba.value
        /\ \A c \in Numbers :
              cmpSt.ab.value = -1 /\ Before(cmpSt.b, c) => Before(cmpSt.a, c)

(***************************************************************************)
(* C4, amended.  On strings of decimal digits and non-numeric characters   *)
(* the comparison yields a result exactly when one string is empty or both *)
(* begin with a run of the same kind (digits, or non-digits), and raises   *)
(* TypeError otherwise.  Where it yields a result, exactly one of a < b,   *)
(* a ~ b, b < a holds, a ~ b holds exactly when a and b are identical up   *)
(* to leading zeros of their digit runs ("09" ~ "9"), and the order is     *)
(* transitive; it agrees with integer order on pure-numeric strings, and   *)
(* places a string before any proper chunk-extension of it.                *)
(***************************************************************************)
\* s without the leading zeros of its runs of digits
RECURSIVE StripZeros(_, _)
StripZeros(s, atRunStart) ==
    IF s = <<>> THEN <<>>
    ELSE IF ~IsDigit(Head(s)) THEN <<Head(s)>> \o StripZeros(Tail(s), TRUE)
    ELSE IF atRunStart /\ Head(s) = "0" /\ Len(s) >= 2 /\ IsDigit(s[2])
         THEN StripZeros(Tail(s), TRUE)
    ELSE <<Head(s)>> \o StripZeros(Tail(s), FALSE)

SameKind(a, b) == a = <<>> \/ b = <<>> \/ IsDigit(Head(a)) = IsDigit(Head(b))

AllDigits(s) == s # <<>> /\ \A i \in 1..Len(s) : IsDigit(s[i])

\* b is a with further chunks appended
ChunkExtension(a, b) ==
    /\ Len(b) > Len(a)
    /\ StartsWith(b, a)
    /\ a # <<>> => IsDigit(b[Len(a) + 1]) # IsDigit(a[Len(a)])

Sign(n) == IF n > 0 THEN 1 ELSE IF n < 0 THEN -1 ELSE 0

C4_StrictWeakOrderOnSameKind ==
    cmpSt.phase = "done" =>
        LET a == cmpSt.a
            b == cmpSt.b
        IN /\ cmpSt.ab.raised <=> ~SameKind(a, b)
           /\ cmpSt.ba.raised <=> ~SameKind(a, b)
           /\ SameKind(a, b) =>
                 /\ cmpSt.ab.value \in {-1, 0, 1}
                 /\ cmpSt.ab.value = -cmpSt.ba.value
                 /\ cmpSt.ab.value = 0 <=> StripZeros(a, TRUE) = StripZeros(b, TRUE)
                 /\ \A c \in Numbers :
                       cmpSt.ab.value = -1 /\ Before(b, c) => Before(a, c)
                 /\ AllDigits(a) /\ AllDigits(b) =>
                       cmpSt.ab.value = Sign(ToInt(a) - ToInt(b))
                 /\ ChunkExtension(a, b) => cmpSt.ab.value = -1

\* "09" was compared with "9": two different strings that compare equal
C4_Witness == Compared(<<"0", "9">>, Nine) /\ cmpSt.ab = Returned(0)

(***************************************************************************)
(* C5.  Selector determinism: _fetch_oldest returns the same print (or     *)
(* fails the same way) for every ordering of the candidates of a response. *)
(***************************************************************************)
Range(f) == {f[i] : i \in DOMAIN f}

C5_SelectorDeterminism ==
    selSt.phase = "done" =>
        \A p \in Orderings(Range(selSt.response)) :
            _fetch_oldest(selSt.name, p) = selSt.result

(***************************************************************************)
(* C6.  Oldest-print selection: the print _fetch_oldest returns is a       *)
(* candidate of the response with exactly the queried name and an eligible *)
(* set, and no other such candidate has an earlier release date, or the    *)
(* same release date and a collector number that is smaller under the      *)
(* chunked comparison.                                                     *)
(***************************************************************************)
C6_OldestEligibleExact ==
    selSt.phase = "done" /\ selSt.result.raised = "" =>
        LET chosen == selSt.result.card
        IN /\ chosen \in Range(selSt.response)
           /\ chosen.name = selSt.name
           /\ Eligible(chosen.set)
           /\ \A c \in Range(selSt.response) :
                 c.name = selSt.name /\ Eligible(c.set) =>
                     /\ DateOf(c.set) >= DateOf(chosen.set)
                     /\ DateOf(c.set) = DateOf(chosen.set) =>
                           ~Before(c.number, chosen.number)

\* the response held an older print of a blacklisted set, a near match of an
\* older set, and a print of the chosen set with a number that sorts first as
\* a string; the print chosen is ZNR 9
C6_Witness ==
    /\ selSt.phase = "done"
    /\ selSt.result = Fetched(Card(Fire, ZNR, Nine, <<>>))
    /\ Card(Fire, LEA, Nine, <<>>) \in Range(selSt.response)
    /\ Card(Fireball, LEB, Nine, <<>>) \in Range(selSt.response)
    /\ Card(Fire, ZNR, Ten, <<>>) \in Range(selSt.response)

(***************************************************************************)
(* C11.  Eligibility: SetRepository holds a set code if and only if the    *)
(* set's type is one of the allowed types and the code is neither LEA nor  *)
(* 4ED; and the print _fetch_oldest returns is never of LEA, of 4ED or of  *)
(* a set of another type, also when such a set holds the oldest print of   *)
(* the name in the response.                                               *)
(***************************************************************************)
AllowedType(type) ==
    type \in {"starter", "core", "expansion", "commander",
              "draft_innovation", "planechase", "archenemy"}

Denylisted(code) == code = LEA \/ code = FourthEdition

TypeOf(code) == (CHOOSE st \in AllSets : st.code = code).type

C11_DenylistOverridesType ==
    /\ \A st \in AllSets :
          SetRepoContains(st.code) <=>
              (AllowedType(st.type) /\ ~Denylisted(st.code))
    /\ ~SetRepoContains(PHPR)
    /\ selSt.phase = "done" /\ selSt.result.raised = "" =>
          /\ ~Denylisted(selSt.result.card.set)
          /\ AllowedType(TypeOf(selSt.result.card.set))

\* the response held prints of LEA, of 4ED and of a promo set, all older than
\* the print chosen, which is of LEB
C11_Witness ==
    /\ selSt.phase = "done"
    /\ selSt.result = Fetched(Card(Fire, LEB, Nine, <<>>))
    /\ Card(Fire, LEA, Nine, <<>>) \in Range(selSt.response)
    /\ Card(Fire, FourthEdition, Nine, <<>>) \in Range(selSt.response)
    /\ Card(Fire, PDRC, Nine, <<>>) \in Range(selSt.response)
    /\ DateOf(LEA) < DateOf(LEB) /\ DateOf(PDRC) < DateOf(LEB)

(***************************************************************************)
(* C7.  Memoization: within one run, at most one oracle query is made for  *)
(* a raw item (name, bucket), exactly one if the item was resolved by the  *)
(* oracle at least once, however often it was resolved; every later        *)
(* resolution of the item yields the record computed first.                *)
(***************************************************************************)
C7_OneQueryPerItem ==
    /\ \A e \in Range(raw) :
          /\ QueriesFor(e) <= 1
          /\ TimesResolved(e) >= 1 /\ ~InOverrideTable(e.name) => QueriesFor(e) = 1
    /\ \A k \in 1..Len(queries) : queries[k].entry \in Range(raw)
    /\ \A i \in Resolved, j \in Resolved : raw[i] = raw[j] => cards[i] = cards[j]

\* an item of the oracle was resolved twice, and another item after it
C7_Witness ==
    /\ Len(cards) = 3
    /\ raw[1] = raw[2]
    /\ raw[3] # raw[1]
    /\ QueriesFor(raw[1]) = 1
    /\ QueriesFor(raw[3]) = 1

(***************************************************************************)
(* C8.  As claimed: within each bucket the (record, multiplicity) pairs    *)
(* are sorted by name, then by collector number under the chunked          *)
(* comparison ("9" before "10"), then by set code, then by bucket.         *)
(***************************************************************************)
ChunkedOrderLess(x, y) ==
    IF x.name # y.name THEN StrLess(x.name, y.name)
    ELSE IF x.number # y.number THEN Before(x.number, y.number)
    ELSE IF x.set_code # y.set_code THEN StrLess(x.set_code, y.set_code)
    ELSE StrLess(x.bucket, y.bucket)

StringOrderLess(x, y) ==
    IF x.name # y.name THEN StrLess(x.name, y.name)
    ELSE IF x.number # y.number THEN StrLess(x.number, y.number)
    ELSE IF x.set_code # y.set_code THEN StrLess(x.set_code, y.set_code)
    ELSE StrLess(x.bucket, y.bucket)

Places ==
    {<<b, i>> \in (1..Len(aggSt.buckets)) \X (1..Len(raw)) :
        i <= Len(aggSt.buckets[b].items)}

PlaceItem(pl) == aggSt.buckets[pl[1]].items[pl[2]]

RECURSIVE SumOver(_)
SumOver(places) ==
    IF places = {} THEN 0
    ELSE LET pl == CHOOSE x \in places : TRUE
         IN PlaceItem(pl)[2] + SumOver(places \ {pl})

C9_Multiplicity ==
    pc = "exported" =>
        /\ \A r \in Range(cards) :
              \E pl \in Places :
                  /\ PlaceItem(pl)[1] = r
                  /\ aggSt.buckets[pl[1]].name = r.bucket
                  /\ PlaceItem(pl)[2] = Cardinality({i \in Resolved : cards[i] = r})
                  /\ \A other \in Places : PlaceItem(other)[1] = r => other = pl
        /\ \A pl \in Places : PlaceItem(pl)[1] \in Range(cards)
        /\ \A b \in 1..Len(aggSt.buckets), c \in 1..Len(aggSt.buckets) :
              aggSt.buckets[b].name = aggSt.buckets[c].name => b = c
        /\ Len(cards) = Len(raw)
        /\ SumOver(Places) = Len(raw)

\* three raw items gave two distinct records of one bucket, with
\* multiplicities 2 and 1
C9_Witness ==
    /\ pc = "exported"
    /\ Len(raw) = 3
    /\ Len(aggSt.buckets) = 1
    /\ Len(aggSt.buckets[1].items) = 2
    /\ {aggSt.buckets[1].items[1][2], aggSt.buckets[1].items[2][2]} = {1, 2}

(***************************************************************************)
(* C10.  Abort without partial output: when the resolution of an item      *)
(* fails, the run ends with one reported failure and the exporter never    *)
(* writes the file; the file is written only after every raw item was      *)
(* resolved, and then holds the records of all of them.                    *)
(***************************************************************************)
C10_NoPartialOutput ==
    /\ pc = "aborted" =>
          /\ failure # "none"
          /\ ~file.written
          /\ file.lines \in {<<>>, OldLines}
    /\ file.written =>
          /\ pc = "exported"
          /\ failure = "none"
          /\ Len(cards) = Len(raw)
          /\ CubeLen(aggSt.entries) = Len(raw)
          /\ file.lines = format(aggSt.entries)
    /\ ~file.written => file.lines \in {<<>>, OldLines}

\* the lookup of the third item failed after two items were resolved
C10_Witness ==
    /\ pc = "aborted"
    /\ failure = "ValueError"
    /\ Len(cards) = 2
    /\ ~file.written

(***************************************************************************)
(* Definitions the properties of minimize are stated with.                 *)
(***************************************************************************)
\* the file minimize writes to
Target == IF minSt.to = None THEN _minimized_name(minSt.file) ELSE minSt.to

\* a line that is empty or holds only blanks, tabulators and its line break
Blank(line) == \A i \in 1..Len(line) : line[i] \in {" ", "TAB", "LF"}

\* a comment: a line whose first character is "#"
Comment(line) == line # <<>> /\ line[1] = "#"

\* the lines that are neither blank nor a comment, in their order
KeptLines(lines) == SelectSeq(lines, LAMBDA line : ~Blank(line) /\ ~Comment(line))

\* the final component of the path ends with ".dck" behind another character
EndsWithDck(path) ==
    LET name == PathName(path)
    IN /\ Len(name) > 4
       /\ SubSeq(name, Len(name) - 3, Len(name)) = <<".", "d", "c", "k">>

(***************************************************************************)
(* C12.  As claimed: after minimize(file, to) has returned, the output     *)
(* file holds exactly the lines the input file held before the call that   *)
(* are neither blank nor a comment (a line beginning with "#"), unchanged  *)
(* and in their order.                                                     *)
(***************************************************************************)
C12_StripsCommentsAndEmptyLines ==
    minSt.phase = "done" /\ minSt.raised = "" =>
        minSt.fs[Target].lines = KeptLines(minSt.before[minSt.file].lines)

\* what holds of every call whose target is another file than the input: the
\* target then holds exactly the kept lines, and the input is as it was
StripsWhenTargetDiffers ==
    minSt.phase = "done" /\ minSt.raised = "" /\ Target # minSt.file =>
        /\ minSt.fs[Target].lines = KeptLines(minSt.before[minSt.file].lines)
        /\ minSt.fs[minSt.file] = minSt.before[minSt.file]

\* a call whose target is its input: the deck held lines to keep
InPlace ==
    /\ minSt.phase = "done"
    /\ minSt.raised = ""
    /\ Target = minSt.file
    /\ KeptLines(minSt.before[minSt.file].lines) # <<>>
    /\ minSt.fs[minSt.file].lines = <<>>

(***************************************************************************)
(* C13.  minimize(file, to) on a path whose extension is not ".dck" raises *)
(* ValueError and leaves every file as it was: the target is neither       *)
(* created nor written.                                                    *)
(***************************************************************************)
C13_NotADeckNoFileOperation ==
    minSt.phase = "done" /\ ~EndsWithDck(minSt.file) =>
        /\ minSt.raised = "ValueError"
        /\ minSt.fs = minSt.before

\* minimize of this script into a file that did not exist
C13_Witness ==
    /\ minSt.phase = "done"
    /\ minSt.file = ScriptPath
    /\ minSt.to = OutPath
    /\ minSt.before[ScriptPath].exists
    /\ Len(minSt.before[ScriptPath].lines) = 2
    /\ minSt.raised = "ValueError"
    /\ ~minSt.fs[OutPath].exists

(***************************************************************************)
(* C14.  Minimizing the deck file that generate wrote yields the NAME line *)
(* and the AUTHOR line followed by one data line for every (card,          *)
(* quantity) item of the cube: the blank line and the "# bucket" line of   *)
(* every bucket are removed, and the two lines of the preamble and every   *)
(* data line are kept as they were written, in their order.                *)
(***************************************************************************)
LineBreak == <<"LF">>

C14_MinimizedCube ==
    minSt.phase = "done" /\ pc = "exported" =>
        LET out == minSt.fs[TestPath].lines
            n == Len(aggSt.entries)
        IN /\ minSt.raised = ""
           /\ Len(out) = 2 + n
           /\ StartsWith(out[1], <<"N", "A", "M", "E", ":">>)
           /\ StartsWith(out[2], <<"A", "U", "T", "H", "O", "R", ":">>)
           /\ out[1] = file.lines[1] \o LineBreak
           /\ out[2] = file.lines[2] \o LineBreak
           /\ \A k \in 1..n :
                 \E i \in 3..Len(out) :
                     out[i] = CardLine(aggSt.entries[k]) \o LineBreak
           /\ \A i \in 1..Len(out) :
                 /\ out[i] # LineBreak
                 /\ out[i][1] # "#"
                 /\ \E j \in i..Len(file.lines) : out[i] = file.lines[j] \o LineBreak
           /\ Len(file.lines) - Len(out) = 2 * Len(aggSt.buckets)

\* a cube of three items in two buckets: nine lines written, five kept
C14_Witness ==
    /\ minSt.phase = "done"
    /\ pc = "exported"
    /\ Len(aggSt.entries) = 3
    /\ Len(aggSt.buckets) = 2
    /\ Len(file.lines) = 9
    /\ Len(minSt.fs[TestPath].lines) = 5

(***************************************************************************)
(* C15.  Memoizer transparency: with the oracle held fixed, every record   *)
(* the memoizing mapper has produced equals the record that mapping the    *)
(* same raw item afresh, without the cache, produces, for every sequence   *)
(* of raw items; when the run has failed at an item, mapping that item     *)
(* afresh fails the same way; and the memoizing run never makes more       *)
(* queries than mapping every item afresh would.                           *)
(***************************************************************************)
\* the body of map without its cache, on the responses of the fixed oracle
MapAfresh(entry) ==
    IF ExtraContains(entry.name)
    THEN [raised |-> "", card |-> _obtain_from_extra(entry)]
    ELSE LET t == translate(entry.name,
                            oracle.answers[serialize_card_by_name(entry.name)])
         IN IF t.raised # ""
            THEN [raised |-> t.raised, card |-> CubeEntry(<<>>, <<>>, <<>>, <<>>)]
            ELSE [raised |-> "", card |-> _obtain_from_api(entry, t.info)]

\* the queries that mapping the items reached so far afresh would make
QueriesAfresh ==
    Cardinality({i \in 1..Len(raw) :
                    /\ i <= idx + 1
                    /\ ~ExtraContains(raw[i].name)})

C15_MemoizerTransparent ==
    /\ \A i \in Resolved :
          /\ MapAfresh(raw[i]).raised = ""
          /\ cards[i] = MapAfresh(raw[i]).card
    /\ pc = "aborted" => MapAfresh(raw[idx + 1]).raised = failure
    /\ Len(queries) <= QueriesAfresh

\* one name under two buckets and a repeated item: three records from two
\* queries, the third equal to the first
C15_Witness ==
    /\ raw = <<RawCubeEntry(Fireball, Red), RawCubeEntry(Fireball, Artifact),
               RawCubeEntry(Fireball, Red)>>
    /\ idx = 3
    /\ Len(queries) = 2
    /\ cards[3] = cards[1]
    /\ cards[2].bucket = Artifact
    /\ cards[2].number = cards[1].number

============================================================================
